---- MODULE Spec2Model ----
(***************************************************************************)
(* Model of the simple_react_agent turn orchestrator                       *)
(* (src/src/agent/core.py), its tool registry (src/src/tools/register.py)  *)
(* and its JSON memory store (src/src/agent/utils/memory.py).              *)
(*                                                                         *)
(* A text is a sequence of string tokens: Python string concatenation is   *)
(* sequence concatenation, and str.find / str.rfind / str.strip work on    *)
(* the tokens.  The tokens "{" and "}" are the brace characters, " " is    *)
(* whitespace, a field token stands for one `"key": value` member of a     *)
(* JSON object (with its separator), every other token is prose.           *)
(***************************************************************************)
EXTENDS Integers, Sequences, FiniteSets, TLC

VARIABLES
    pc,             \* step of process_user_input the control is in
    status,         \* "idle" | "running" | "returned" | "raised"
    trace,          \* steps entered so far in the current turn (history)
    user_input,     \* argument of process_user_input
    reply,          \* text _call_llm returned to _analyze_tool_needs (history)
    tool_analysis,  \* the parsed plan (dict), NoPlan before it exists
    idx,            \* _execute_tools: number of plan entries consumed
    tool_results,   \* insertion-ordered dict name -> text
    tools_used,     \* list(tool_results.keys())
    calls,          \* ToolManager.execute_tool calls of this turn (history)
    agent_response, \* text produced in RESPONDING
    summary,        \* text produced in SUMMARIZING
    llm_failed,     \* steps of this turn whose LLM call failed (history)
    threw,          \* step whose exception reached the except clause (history)
    error_message,  \* except clause: str(e)
    context,        \* _generate_response: recent_conversations
    result,         \* value returned by process_user_input
    tools,          \* ToolManager.tools: insertion-ordered dict name -> tool
    data,           \* Memory.data
    file,           \* the backing file of the store
    now,            \* the wall clock read by datetime.now()
    turns,          \* number of process_user_input calls so far
    before,         \* data['conversations'] when the turn started (history)
    persist_ret,      \* what the last add_conversation_turn of a turn did (history)
    call,           \* the last call of a Memory method made from outside (history)
    born,           \* metadata.created_at when Memory.__init__ returned (history)
    registered,     \* tools passed to register_tool so far, in call order (history)
    listing         \* what the last listing of the registry returned (history)

vars == <<pc, status, trace, user_input, reply, tool_analysis, idx,
          tool_results, tools_used, calls, agent_response, summary,
          llm_failed, threw, error_message, context, result, tools, data,
          file, now, turns, before, persist_ret, call, born, registered, listing>>

turnVars == <<pc, status, trace, user_input, reply, tool_analysis, idx,
              tool_results, tools_used, calls, agent_response, summary,
              llm_failed, threw, error_message, context, result, turns,
              before, persist_ret>>

storeVars == <<data, file, now>>

memVars == <<call, born>>

regVars == <<registered, listing>>

----------------------------------------------------------------------------
(* Bounds of the model *)

MaxTools == 2     \* tools_to_use lists up to this length are all enumerated
MaxTurns == 2     \* process_user_input calls per behaviour
MaxClock == 0     \* last instant the wall clock reaches
MaxReplyLen == 5  \* longest reply, in tokens, of the parsing specification
MaxStored == 5    \* most turns in the file a store is constructed over
MaxLimit == 6     \* largest limit passed to get_recent_conversations
MaxCalls == 3     \* Memory method calls per behaviour of the store specification
MaxMemClock == 1  \* last instant of the clock in the store specification
MaxRegistrations == 3  \* register_tool calls after construction, registry specification
MaxExecutes == 2  \* execute_tool calls of the registry specification

----------------------------------------------------------------------------
(* Generic helpers *)

Min(a, b) == IF a <= b THEN a ELSE b

Range(s) == {s[i] : i \in 1..Len(s)}

SeqsUpTo(S, n) == UNION {[1..k -> S] : k \in 0..n}

(* str.find(ch): index of the first occurrence, -1 when there is none
   (0-based in Python; 1-based here, 0 standing for -1). *)
Find(s, ch) ==
    IF \E i \in 1..Len(s) : s[i] = ch
    THEN CHOOSE i \in 1..Len(s) : s[i] = ch /\ \A j \in 1..(i - 1) : s[j] # ch
    ELSE 0

(* str.rfind(ch): index of the last occurrence. *)
RFind(s, ch) ==
    IF \E i \in 1..Len(s) : s[i] = ch
    THEN CHOOSE i \in 1..Len(s) : s[i] = ch /\ \A j \in (i + 1)..Len(s) : s[j] # ch
    ELSE 0

(* str.strip(): drop leading and trailing whitespace tokens. *)
Strip(s) ==
    IF \A i \in 1..Len(s) : s[i] = " "
    THEN << >>
    ELSE LET a == CHOOSE i \in 1..Len(s) : s[i] # " " /\ \A j \in 1..(i - 1) : s[j] = " "
             b == CHOOSE i \in 1..Len(s) : s[i] # " " /\ \A j \in (i + 1)..Len(s) : s[j] = " "
         IN  SubSeq(s, a, b)

----------------------------------------------------------------------------
(* Insertion-ordered dict: a sequence of <<key, value>> pairs with distinct
   keys.  d[k] = v keeps the position of an existing key. *)

DictKeys(d) == [i \in 1..Len(d) |-> d[i][1]]

DictHas(d, k) == \E i \in 1..Len(d) : d[i][1] = k

DictGet(d, k) == d[CHOOSE i \in 1..Len(d) : d[i][1] = k][2]

(* d[k] = v that leaves an existing key alone. *)
DictSet_KeepFirst(d, k, v) ==
    IF DictHas(d, k) THEN d ELSE Append(d, <<k, v>>)

(* d[k] = v that moves an existing key to the end. *)
DictSet_MoveToEnd(d, k, v) ==
    Append(SelectSeq(d, LAMBDA p : p[1] # k), <<k, v>>)

DictSet(d, k, v) ==
    IF DictHas(d, k)
    THEN [i \in 1..Len(d) |-> IF d[i][1] = k THEN <<k, v>> ELSE d[i]]
    ELSE Append(d, <<k, v>>)

----------------------------------------------------------------------------
(* Texts and JSON values *)

(* One token of a text.  `nt` and `tu` carry the value of a field token
   ("needs_tools" and "tools_to_use" members); they are empty otherwise. *)
Tok(c) == [ch |-> c, nt |-> "", tu |-> << >>]

T(c) == <<Tok(c)>>

LBrace == Tok("{")
RBrace == Tok("}")
Space == Tok(" ")

FindCh(s, c) == Find([i \in 1..Len(s) |-> s[i].ch], c)
RFindCh(s, c) == RFind([i \in 1..Len(s) |-> s[i].ch], c)
StripText(s) ==
    LET chs == [i \in 1..Len(s) |-> s[i].ch]
    IN  IF Strip(chs) = << >> THEN << >>
        ELSE LET a == CHOOSE i \in 1..Len(s) :
                        chs[i] # " " /\ \A j \in 1..(i - 1) : chs[j] = " "
             IN  SubSeq(s, a, a + Len(Strip(chs)) - 1)

(* A plan entry of tools_to_use.  kind "obj" is a JSON object, "notobj" any
   other JSON value (it has no .get).  tool_name Absent: the key is missing.
   parameters: "ok" a mapping the tool accepts, "bad" one it does not accept
   (unexpected or missing keyword, or not a mapping), Absent: key missing. *)
Absent == "<absent>"
TimeTool == "get_current_time"     \* registered by ToolManager.__init__
FaceTool == "recognize_face"       \* a tool class no code registers

Entry(n, p) == [kind |-> "obj", tool_name |-> n, parameters |-> p]
NotObjEntry == [kind |-> "notobj", tool_name |-> Absent, parameters |-> Absent]

Entries ==
    { Entry(TimeTool, "ok"), Entry(TimeTool, "bad"), Entry(FaceTool, "ok"),
      Entry(Absent, Absent), NotObjEntry }

ToolLists == SeqsUpTo(Entries, MaxTools)

(* Field tokens of a JSON object text. *)
NT(v) == [ch |-> "needs_tools", nt |-> v, tu |-> << >>]
TU(l) == [ch |-> "tools_to_use", nt |-> "", tu |-> l]
RS == Tok("reasoning")
OtherField == Tok("note")

FieldKeys == {"needs_tools", "tools_to_use", "reasoning", "note"}

(* JSON literals the model may put in needs_tools, and Python truthiness of
   the parsed value (True, False, 1, None). *)
NeedsToolsValues == {"true", "false", "1", "null"}
Truthy(v) == v \in {"true", "1"}

(* json.loads of a text that starts with "{" and ends with "}": an object
   when everything between is a member list, JSONDecodeError otherwise.
   A text starting with "{" never parses to a non-object. *)
JsonValid(s) ==
    /\ Len(s) >= 2
    /\ s[1].ch = "{"
    /\ s[Len(s)].ch = "}"
    /\ \A i \in 2..(Len(s) - 1) : s[i].ch \in FieldKeys

(* The parsed dict: the keys present and, for a repeated key, the value of
   its last member. *)
LastField(s, k) == s[CHOOSE i \in 1..Len(s) : s[i].ch = k /\ \A j \in (i + 1)..Len(s) : s[j].ch # k]

JsonLoads(s) ==
    LET keys == {s[i].ch : i \in 2..(Len(s) - 1)}
    IN  [isdict |-> TRUE,
         keys |-> keys,
         needs_tools |-> IF "needs_tools" \in keys THEN LastField(s, "needs_tools").nt ELSE "",
         tools_to_use |-> IF "tools_to_use" \in keys THEN LastField(s, "tools_to_use").tu ELSE << >>,
         reasoning |-> IF "reasoning" \in keys THEN "given" ELSE ""]

NoPlan == [keys |-> {}, needs_tools |-> "", tools_to_use |-> << >>, reasoning |-> ""]

(* Exception messages, str(e). *)
MsgNoJson == T("No valid JSON found in response")
MsgNotObject == T("Response is not a valid JSON object")
MsgJsonDecode == T("JSONDecodeError")
MsgRender == T("template fallback failed")
MsgSystemPrompt == T("'system_prompt'")
MsgNoGet == T("object has no attribute 'get'")
MsgSave == T("'utf-8' codec can't encode character: surrogates not allowed")
NoText == << >>

(* Lines 161-166 left out: the parsed dict is returned as it is. *)
BackFill_NoDefaults(a) ==
    [keys |-> a.keys, needs_tools |-> a.needs_tools,
     tools_to_use |-> a.tools_to_use, reasoning |-> a.reasoning]

(* Lines 161-166: the three required keys get a default when absent. *)
BackFill(a) ==
    [keys |-> a.keys \cup {"needs_tools", "tools_to_use", "reasoning"},
     needs_tools |-> IF "needs_tools" \in a.keys THEN a.needs_tools ELSE "false",
     tools_to_use |-> IF "tools_to_use" \in a.keys THEN a.tools_to_use ELSE << >>,
     reasoning |-> IF "reasoning" \in a.keys THEN a.reasoning
                   ELSE "No reasoning provided"]

(* A candidate that is the whole trimmed reply. *)
JsonCandidate_WholeReply(r, start_idx, end_idx) == r

(* Line 154: json_str = response[start_idx : end_idx + 1]. *)
JsonCandidate(r, start_idx, end_idx) == SubSeq(r, start_idx, end_idx)

(* _analyze_tool_needs, lines 146-170, on the text _call_llm returned:
   [raised, error, analysis]. *)
ParsePlan(response) ==
    LET r == StripText(response)
        start_idx == FindCh(r, "{")
        end_idx == RFindCh(r, "}")
    IN  IF start_idx # 0 /\ end_idx # 0 /\ end_idx > start_idx
        THEN LET json_str == JsonCandidate(r, start_idx, end_idx)
             IN  IF ~JsonValid(json_str)
                 THEN [raised |-> TRUE, error |-> MsgJsonDecode, analysis |-> NoPlan]
                 ELSE LET a == JsonLoads(json_str)
                      IN  IF ~a.isdict
                          THEN [raised |-> TRUE, error |-> MsgNotObject, analysis |-> NoPlan]
                          ELSE [raised |-> FALSE, error |-> NoText,
                                analysis |-> BackFill(a)]
        ELSE [raised |-> TRUE, error |-> MsgNoJson, analysis |-> NoPlan]

----------------------------------------------------------------------------
(* Collaborators: prompt renderer and language model *)

(* What _render_template does for a template, decided by the content of
   self.prompts (prompt.json):
     "ok"     Jinja2 renders it;
     "format" Jinja2 raises, self.prompts[name].format of the kwargs succeeds;
     "dump"   Jinja2 raises, the name is not in self.prompts: str(kwargs);
     "raise"  Jinja2 raises and .format raises too (KeyError, ValueError,
              AttributeError): the exception leaves _render_template. *)
RenderOutcomes == {"ok", "format", "dump", "raise"}

RenderTemplate(template_name, how) ==
    IF how = "raise"
    THEN [raised |-> TRUE, text |-> NoText]
    ELSE [raised |-> FALSE,
          text |-> IF how = "dump" THEN T("str(kwargs)")
                   ELSE <<Tok(template_name), Tok(how)>>]

LlmErrorText(msg) == T("Error calling LLM: ") \o msg

MsgTransport == T("connection refused")

(* _call_llm whose except clause returns an empty text. *)
CallLlm_EmptyOnFailure(chunks, failed) ==
    IF failed THEN NoText ELSE StripText(chunks)

(* _call_llm: the concatenated chunks, stripped; a failure of the client is
   caught and returned as text. *)
CallLlm(chunks, failed) ==
    IF failed THEN LlmErrorText(MsgTransport) ELSE StripText(chunks)

(* Texts the model sends back for the response, summary and error prompts:
   each names the prompt it answers. *)
LlmTexts(template_name) == { <<Space, Tok("reply to"), Tok(template_name), Space>> }

----------------------------------------------------------------------------
(* Tool registry: src/src/tools/register.py *)

ToolErrorText(name, msg) == <<Tok("Error executing tool '"), Tok(name), Tok("': ")>> \o msg

MsgNotFound == T("Tool not found")
MsgTypeError == T("TypeError: bad arguments")

(* Tool classes: the two of the repository and another BaseTool subclass
   that carries the name of the first. *)
ToolClasses == {"GetCurrentTimeTool", "RecognizeFaceTool", "CustomTimeTool"}

(* tool.name *)
NameOfTool(impl) ==
    IF impl = "RecognizeFaceTool" THEN FaceTool ELSE TimeTool

(* What tool.execute returns when its parameters bind and it does not fail. *)
ToolOutput(impl) ==
    IF impl = "GetCurrentTimeTool" THEN T("2024-01-01 12:00:00")
    ELSE IF impl = "RecognizeFaceTool" THEN T("There is no person in the picture")
    ELSE T("custom time")

(* BaseTool.to_dict *)
ToDict(impl) ==
    [name |-> NameOfTool(impl), description |-> impl, parameters |-> "schema"]

(* tool.execute with the parameters as keywords: [raised, text].  The call
   raises TypeError when the parameters do not bind (unexpected or missing
   keyword, not a mapping); otherwise the tool returns its text. *)
RunTool(impl, parameters) ==
    IF parameters = "bad"
    THEN [raised |-> TRUE, text |-> MsgTypeError]
    ELSE [raised |-> FALSE, text |-> ToolOutput(impl)]

(* execute_tool that hands back the bare exception message. *)
ExecuteTool_RawMessage(reg, name, parameters) ==
    IF ~DictHas(reg, name)
    THEN MsgNotFound
    ELSE RunTool(DictGet(reg, name), parameters).text

(* ToolManager.execute_tool: every exception becomes a text. *)
ExecuteTool(reg, name, parameters) ==
    IF ~DictHas(reg, name)
    THEN ToolErrorText(name, MsgNotFound)
    ELSE LET r == RunTool(DictGet(reg, name), parameters)
         IN  IF r.raised THEN ToolErrorText(name, r.text) ELSE r.text

(* A register_tool that keeps the tool a name already has. *)
RegisterToolIn_KeepsFirst(reg, name, impl) == DictSet_KeepFirst(reg, name, impl)

(* ToolManager.register_tool *)
RegisterToolIn(reg, name, impl) == DictSet(reg, name, impl)

DefaultTools == RegisterToolIn(<< >>, TimeTool, "GetCurrentTimeTool")

(* The register_tool calls ToolManager.__init__ makes. *)
DefaultRegistrations == <<"GetCurrentTimeTool">>

(* A listing of the descriptors in the opposite order. *)
GetAvailableTools_Reversed(reg) ==
    [i \in 1..Len(reg) |-> ToDict(reg[Len(reg) + 1 - i][2])]

(* ToolManager.get_available_tools *)
GetAvailableTools(reg) == [i \in 1..Len(reg) |-> ToDict(reg[i][2])]

(* ToolManager.get_tool_names *)
GetToolNames(reg) == DictKeys(reg)

NoListing == [names |-> << >>, descriptors |-> << >>, after |-> 0]

----------------------------------------------------------------------------
(* Memory store: src/src/agent/utils/memory.py *)

CreateEmptyMemory(t1, t2) ==
    [conversations |-> << >>,
     agent_state |-> << >>,
     metadata |-> [created_at |-> t1, last_updated |-> t2]]

NoData == CreateEmptyMemory(0, 0)
FileAbsent == [kind |-> "absent", content |-> NoData]
FileCorrupt == [kind |-> "corrupt", content |-> NoData]

(* A file whose bytes are not UTF-8 text. *)
FileUndecodable == [kind |-> "undecodable", content |-> NoData]

(* A json.dump that writes every turn without its tools. *)
JsonDump_DropsToolsUsed(d) ==
    [keys |-> {"conversations", "agent_state", "metadata"},
     conversations |-> [i \in 1..Len(d.conversations) |->
                          [d.conversations[i] EXCEPT !.tools_used = << >>]],
     agent_state |-> d.agent_state,
     metadata |-> d.metadata]

(* json.dump of the store: a document with the three top-level keys. *)
JsonDump(d) ==
    [keys |-> {"conversations", "agent_state", "metadata"},
     conversations |-> d.conversations,
     agent_state |-> d.agent_state,
     metadata |-> d.metadata]

FileOf(d) == [kind |-> "data", content |-> JsonDump(d)]

(* A text json.dump(..., ensure_ascii=False) cannot write to a UTF-8 file. *)
Surrogate == "\\udcff"
Encodable(text) == \A i \in 1..Len(text) : text[i].ch # Surrogate

(* A state value json.dump has no encoding for (a set, an object). *)
NotJson == "set()"

Serializable(d) ==
    /\ \A i \in 1..Len(d.conversations) :
         /\ Encodable(d.conversations[i].user_input)
         /\ Encodable(d.conversations[i].agent_response)
    /\ \A i \in 1..Len(d.agent_state) : d.agent_state[i][2] # NotJson

(* The instants a datetime.now() call may return when the clock shows t. *)
Instants(t) == t..Min(t + 1, MaxClock)

IoOutcomes == {"ok", "open_fails", "write_fails"}

(* A _save_memory that reports success without writing the file. *)
SaveMemory_SkipsWrite(d, f, t, io) ==
    [data |-> [d EXCEPT !.metadata.last_updated = t], file |-> f, ret |-> "true"]

(* Memory._save_memory at instant t: [data, file, ret], ret "true", "false"
   or "raise" (an exception other than IOError leaves the method). *)
SaveMemory(d, f, t, io) ==
    LET d1 == [d EXCEPT !.metadata.last_updated = t]
    IN  IF io = "open_fails"
        THEN [data |-> d1, file |-> f, ret |-> "false"]
        ELSE IF ~Serializable(d1)
        THEN [data |-> d1, file |-> FileCorrupt, ret |-> "raise"]
        ELSE IF io = "write_fails"
        THEN [data |-> d1, file |-> FileCorrupt, ret |-> "false"]
        ELSE [data |-> d1, file |-> FileOf(d1), ret |-> "true"]

(* An add_conversation_turn that keeps nothing but the new turn. *)
AddConversationTurn_KeepsLatestOnly(d, f, ui, ar, tu, t1, t2, io) ==
    SaveMemory([d EXCEPT !.conversations =
                    <<[timestamp |-> t1, user_input |-> ui, agent_response |-> ar,
                       tools_used |-> tu]>>], f, t2, io)

(* An add_conversation_turn that takes the turn back out of the log when
   the file could not be written. *)
AddConversationTurn_RollsBackOnFailure(d, f, ui, ar, tu, t1, t2, io) ==
    LET conversation_turn ==
            [timestamp |-> t1, user_input |-> ui, agent_response |-> ar,
             tools_used |-> tu]
        saved == SaveMemory([d EXCEPT !.conversations = Append(@, conversation_turn)],
                            f, t2, io)
    IN  IF saved.ret = "false"
        THEN [saved EXCEPT !.data.conversations = d.conversations]
        ELSE saved

(* Memory.add_conversation_turn, stamped at t1, saved at t2. *)
AddConversationTurn(d, f, ui, ar, tu, t1, t2, io) ==
    LET conversation_turn ==
            [timestamp |-> t1, user_input |-> ui, agent_response |-> ar,
             tools_used |-> tu]
        d1 == [d EXCEPT !.conversations = Append(@, conversation_turn)]
    IN  SaveMemory(d1, f, t2, io)

(* Memory.update_agent_state *)
UpdateAgentState(d, f, key, value, t, io) ==
    SaveMemory([d EXCEPT !.agent_state = DictSet(@, key, value)], f, t, io)

(* Memory.clear_conversations *)
ClearConversations(d, f, t, io) ==
    SaveMemory([d EXCEPT !.conversations = << >>], f, t, io)

(* Memory.clear_agent_state *)
ClearAgentState(d, f, t, io) ==
    SaveMemory([d EXCEPT !.agent_state = << >>], f, t, io)

(* A clear_all that keeps the metadata block of the store it clears. *)
ClearAll_KeepsMetadata(d, f, t1, t2, t3, io) ==
    SaveMemory([CreateEmptyMemory(t1, t2) EXCEPT !.metadata = d.metadata], f, t3, io)

(* Memory.clear_all: the empty structure is stamped at t1 and t2, the save
   at t3. *)
ClearAll(d, f, t1, t2, t3, io) ==
    SaveMemory(CreateEmptyMemory(t1, t2), f, t3, io)

LoadOutcomes == {"ok", "read_fails"}

(* Memory._load_memory: the document of the file with the missing top-level
   keys filled in; the empty structure when there is no file, when it cannot
   be read or when it is not JSON.  t1 and t2 are the instants of the two
   datetime.now() calls. *)
LoadMemory(f, t1, t2, io) ==
    IF f.kind # "data" \/ io = "read_fails"
    THEN CreateEmptyMemory(t1, t2)
    ELSE LET doc == f.content
         IN  [conversations |-> IF "conversations" \in doc.keys
                                THEN doc.conversations ELSE << >>,
              agent_state |-> IF "agent_state" \in doc.keys
                              THEN doc.agent_state ELSE << >>,
              metadata |-> IF "metadata" \in doc.keys THEN doc.metadata
                           ELSE [created_at |-> t1, last_updated |-> t2]]

(* _load_memory catches json.JSONDecodeError and IOError; reading bytes that
   are not UTF-8 raises UnicodeDecodeError, which is neither. *)
LoadRaises(f, io) == f.kind = "undecodable" /\ io = "ok"

(* Memory.__init__: [raised, data]; no store exists when it raised. *)
ConstructMemory(f, t1, t2, io) ==
    IF LoadRaises(f, io)
    THEN [raised |-> TRUE, data |-> CreateEmptyMemory(0, 0)]
    ELSE [raised |-> FALSE, data |-> LoadMemory(f, t1, t2, io)]

(* Memory.get_recent_conversations: conversations[-limit:], [] when empty.
   A slice [-0:] is the whole list. *)
GetRecentConversations(d, limit) ==
    LET c == d.conversations
    IN  IF c = << >> THEN << >>
        ELSE IF limit = 0 THEN c
        ELSE SubSeq(c, IF Len(c) > limit THEN Len(c) - limit + 1 ELSE 1, Len(c))

ContextLimit == 3

----------------------------------------------------------------------------
(* Inputs *)

(* What main.py passes on: ordinary text, or text with a lone surrogate (a
   byte of the command line that is not UTF-8, decoded with surrogateescape). *)
UserInputs == { T("What time is it?"), T(Surrogate) }

Obj(fields) == <<LBrace>> \o fields \o <<RBrace>>
Prose == Tok("Here is my analysis")

(* A plan that comes back to its first tool after another one and an entry
   without a name. *)
RevisitPlan ==
    <<Entry(TimeTool, "ok"), Entry(Absent, "ok"), Entry(FaceTool, "ok"),
      Entry(TimeTool, "bad")>>

(* Replies of the model to the tool selection prompt. *)
PlanReplies ==
    { Obj(<<NT("true"), TU(l), RS>>) : l \in ToolLists }
    \cup { Obj(<<NT(v), TU(<<Entry(TimeTool, "ok")>>)>>) : v \in NeedsToolsValues }
    \cup { Obj(<< >>), Obj(<<RS>>), Obj(<<OtherField>>), Obj(<<NT("true")>>),
           Obj(<<NT("true"), TU(<<Entry("", "ok"), Entry(TimeTool, Absent)>>)>>),
           Obj(<<TU(<<Entry(TimeTool, "ok")>>), RS>>),
           Obj(<<NT("false"), NT("true"), TU(<<Entry(TimeTool, "bad")>>)>>),
           Obj(<<NT("true"), TU(RevisitPlan)>>) }

WrappedReplies ==
    { <<Space, Prose>> \o Obj(<<NT("true"), TU(<<Entry(TimeTool, "ok")>>), RS>>) \o <<Prose, Space>>,
      <<Prose>> \o Obj(<<NT("false")>>) }

BadReplies ==
    { << >>, <<Space>>, <<Prose>>, <<LBrace>>, <<RBrace>>, <<RBrace, Prose, LBrace>>,
      <<LBrace, Prose, RBrace>>,
      <<LBrace, Prose, RBrace>> \o Obj(<<NT("false")>>),
      Obj(<<NT("false")>>) \o <<Prose, RBrace>>,
      <<LBrace>> \o Obj(<<NT("false")>>) }

AnalysisReplies == PlanReplies \cup WrappedReplies \cup BadReplies

----------------------------------------------------------------------------
(* process_user_input: src/src/agent/core.py *)

Steps == {"ANALYZING", "TOOL_EXECUTION", "RESPONDING", "SUMMARIZING", "PERSISTING"}

NoResult ==
    [keys |-> {}, response |-> NoText, tools_used |-> << >>, tool_results |-> << >>,
     summary |-> NoText, tool_analysis |-> NoPlan, error |-> NoText]

(* The dict returned at lines 284-290. *)
SuccessResult(resp, used, results, summ, analysis) ==
    [keys |-> {"response", "tools_used", "tool_results", "summary", "tool_analysis"},
     response |-> resp, tools_used |-> used, tool_results |-> results,
     summary |-> summ, tool_analysis |-> analysis, error |-> NoText]

(* An except clause that reports the tools the turn had run. *)
ErrorResult_KeepsTools(error_response, msg) ==
    [keys |-> {"response", "tools_used", "tool_results", "summary", "error"},
     response |-> error_response, tools_used |-> tools_used,
     tool_results |-> tool_results,
     summary |-> T("Error occurred: ") \o msg, tool_analysis |-> NoPlan,
     error |-> msg]

(* An except clause that returns the response the turn had produced. *)
ErrorResult_KeepsResponse(error_response, msg) ==
    [keys |-> {"response", "tools_used", "tool_results", "summary", "error"},
     response |-> IF agent_response # NoText THEN agent_response ELSE error_response,
     tools_used |-> << >>, tool_results |-> << >>,
     summary |-> T("Error occurred: ") \o msg, tool_analysis |-> NoPlan,
     error |-> msg]

(* The dict returned at lines 301-307. *)
ErrorResult(error_response, msg) ==
    [keys |-> {"response", "tools_used", "tool_results", "summary", "error"},
     response |-> error_response, tools_used |-> << >>, tool_results |-> << >>,
     summary |-> T("Error occurred: ") \o msg, tool_analysis |-> NoPlan,
     error |-> msg]

(* A turn that goes from ANALYZING straight to SUMMARIZING without tools. *)
StepAfterAnalysis_SkipsResponding(analysis) ==
    IF Truthy(analysis.needs_tools) THEN "TOOL_EXECUTION" ELSE "SUMMARIZING"

(* A turn that runs the tools whenever the plan lists some. *)
StepAfterAnalysis_ByList(analysis) ==
    IF analysis.tools_to_use # << >> THEN "TOOL_EXECUTION" ELSE "RESPONDING"

(* Line 270: the step after ANALYZING. *)
StepAfterAnalysis(analysis) ==
    IF Truthy(analysis.needs_tools) THEN "TOOL_EXECUTION" ELSE "RESPONDING"

(* Lines 185-186: tool_spec.get with defaults. *)
ToolNameOf(tool_spec) ==
    IF tool_spec.tool_name = Absent THEN "" ELSE tool_spec.tool_name

ParametersOf(tool_spec) ==
    IF tool_spec.parameters = Absent THEN "empty" ELSE tool_spec.parameters

(* A loop that passes over the names the registry does not know. *)
ShouldExecute_RegisteredOnly(tool_name) == tool_name = TimeTool

(* A loop that calls execute_tool for every entry. *)
ShouldExecute_Always(tool_name) == TRUE

(* Line 188: `if tool_name:` *)
ShouldExecute(tool_name) == tool_name # ""

(* Memory.get_memory_stats: the dict it returns; file_size_bytes is there
   when the file exists. *)
GetMemoryStats(d, f) ==
    [conversation_count |-> Len(d.conversations),
     agent_state_keys |-> Len(d.agent_state),
     file_exists |-> f.kind # "absent",
     keys |-> {"conversation_count", "agent_state_keys", "memory_file",
               "file_exists", "metadata"}
                 \cup (IF f.kind # "absent" THEN {"file_size_bytes"} ELSE {}),
     metadata |-> d.metadata]

NoStats == GetMemoryStats(CreateEmptyMemory(0, 0), [kind |-> "absent"])

(* No Memory method has been called from outside the orchestrator. *)
NoCall ==
    [name |-> "none", n |-> 0, limit |-> 0, ret |-> "none", out |-> << >>,
     pre |-> CreateEmptyMemory(0, 0), prior |-> [name |-> "none", ret |-> "none"],
     stats |-> NoStats]

Init ==
    /\ pc = "IDLE"
    /\ status = "idle"
    /\ trace = << >>
    /\ user_input = NoText
    /\ reply = NoText
    /\ tool_analysis = NoPlan
    /\ idx = 0
    /\ tool_results = << >>
    /\ tools_used = << >>
    /\ calls = << >>
    /\ agent_response = NoText
    /\ summary = NoText
    /\ llm_failed = {}
    /\ threw = "none"
    /\ error_message = NoText
    /\ context = << >>
    /\ result = NoResult
    /\ tools = DefaultTools
    /\ data = CreateEmptyMemory(0, 0)
    /\ file = FileAbsent
    /\ now = 0
    /\ turns = 0
    /\ before = << >>
    /\ persist_ret = "none"
    /\ call = NoCall
    /\ born = 0
    /\ registered = DefaultRegistrations
    /\ listing = NoListing

(* An exception reaches `except Exception as e` from step `step`. *)
Fail(step, msg) ==
    /\ pc' = "ERROR"
    /\ trace' = Append(trace, "ERROR")
    /\ threw' = step
    /\ error_message' = msg

(* process_user_input is called. *)
StartTurn ==
    /\ status \in {"idle", "returned", "raised"}
    /\ turns < MaxTurns
    /\ \E u \in UserInputs : user_input' = u
    /\ turns' = turns + 1
    /\ pc' = "ANALYZING"
    /\ status' = "running"
    /\ trace' = <<"ANALYZING">>
    /\ reply' = NoText
    /\ tool_analysis' = NoPlan
    /\ idx' = 0
    /\ tool_results' = << >>
    /\ tools_used' = << >>
    /\ calls' = << >>
    /\ agent_response' = NoText
    /\ summary' = NoText
    /\ llm_failed' = {}
    /\ threw' = "none"
    /\ error_message' = NoText
    /\ context' = << >>
    /\ result' = NoResult
    /\ before' = data.conversations
    /\ UNCHANGED <<tools, storeVars>>
    /\ UNCHANGED <<memVars, regVars, persist_ret>>

(* Step 1, line 264: _analyze_tool_needs, the model answering with one of
   `replies`. *)
AnalyzeWith(replies) ==
    /\ pc = "ANALYZING"
    /\ status = "running"
    /\ \E how \in RenderOutcomes, chunks \in replies, failed \in BOOLEAN :
         LET prompt == RenderTemplate("tool_selection_prompt", how)
             response == CallLlm(chunks, failed)
             parsed == ParsePlan(response)
         IN  IF prompt.raised
             THEN /\ Fail("ANALYZING", MsgRender)
                  /\ UNCHANGED <<reply, tool_analysis, llm_failed>>
             ELSE /\ reply' = response
                  /\ llm_failed' = IF failed THEN llm_failed \cup {"ANALYZING"} ELSE llm_failed
                  /\ IF parsed.raised
                     THEN /\ Fail("ANALYZING", parsed.error)
                          /\ UNCHANGED tool_analysis
                     ELSE /\ tool_analysis' = parsed.analysis
                          /\ pc' = StepAfterAnalysis(parsed.analysis)
                          /\ trace' = Append(trace, StepAfterAnalysis(parsed.analysis))
                          /\ UNCHANGED <<threw, error_message>>
    /\ UNCHANGED <<status, user_input, idx, tool_results, tools_used, calls,
                   agent_response, summary, context, result, turns, before, tools,
                   storeVars>>
    /\ UNCHANGED <<memVars, regVars, persist_ret>>

Analyze == AnalyzeWith(AnalysisReplies)

(* Step 2, lines 184-190: one iteration of the loop of _execute_tools. *)
ToolStep ==
    /\ pc = "TOOL_EXECUTION"
    /\ status = "running"
    /\ idx < Len(tool_analysis.tools_to_use)
    /\ LET tool_spec == tool_analysis.tools_to_use[idx + 1]
       IN  IF tool_spec.kind # "obj"
           THEN /\ Fail("TOOL_EXECUTION", MsgNoGet)
                /\ UNCHANGED <<idx, tool_results, calls>>
           ELSE LET tool_name == ToolNameOf(tool_spec)
                    parameters == ParametersOf(tool_spec)
                IN  /\ idx' = idx + 1
                    /\ UNCHANGED <<pc, trace, threw, error_message>>
                    /\ IF ShouldExecute(tool_name)
                       THEN LET res == ExecuteTool(tools, tool_name, parameters)
                            IN  /\ tool_results' = DictSet(tool_results, tool_name, res)
                                /\ calls' = Append(calls, [name |-> tool_name,
                                                           parameters |-> parameters,
                                                           result |-> res])
                       ELSE UNCHANGED <<tool_results, calls>>
    /\ UNCHANGED <<status, user_input, reply, tool_analysis, tools_used,
                   agent_response, summary, llm_failed, context, result, turns,
                   before, tools, storeVars>>
    /\ UNCHANGED <<memVars, regVars, persist_ret>>

(* Lines 192 and 273: the loop is over, tools_used = list(tool_results.keys()). *)
ToolsDone ==
    /\ pc = "TOOL_EXECUTION"
    /\ status = "running"
    /\ idx = Len(tool_analysis.tools_to_use)
    /\ tools_used' = DictKeys(tool_results)
    /\ pc' = "RESPONDING"
    /\ trace' = Append(trace, "RESPONDING")
    /\ UNCHANGED <<status, user_input, reply, tool_analysis, idx, tool_results,
                   calls, agent_response, summary, llm_failed, threw, error_message,
                   context, result, turns, before, tools, storeVars>>
    /\ UNCHANGED <<memVars, regVars, persist_ret>>

(* Step 3, line 276: _generate_response. *)
Respond ==
    /\ pc = "RESPONDING"
    /\ status = "running"
    /\ context' = GetRecentConversations(data, ContextLimit)
    /\ \E how \in RenderOutcomes, has_system_prompt \in BOOLEAN,
          chunks \in LlmTexts("response_generation_prompt"), failed \in BOOLEAN :
         LET prompt == RenderTemplate("response_generation_prompt", how)
         IN  IF prompt.raised
             THEN /\ Fail("RESPONDING", MsgRender)
                  /\ UNCHANGED <<agent_response, llm_failed>>
             ELSE IF ~has_system_prompt
             THEN /\ Fail("RESPONDING", MsgSystemPrompt)
                  /\ UNCHANGED <<agent_response, llm_failed>>
             ELSE /\ agent_response' = CallLlm(chunks, failed)
                  /\ llm_failed' = IF failed THEN llm_failed \cup {"RESPONDING"} ELSE llm_failed
                  /\ pc' = "SUMMARIZING"
                  /\ trace' = Append(trace, "SUMMARIZING")
                  /\ UNCHANGED <<threw, error_message>>
    /\ UNCHANGED <<status, user_input, reply, tool_analysis, idx, tool_results,
                   tools_used, calls, summary, result, turns, before, tools,
                   storeVars>>
    /\ UNCHANGED <<memVars, regVars, persist_ret>>

(* Step 4, line 279: _generate_summary. *)
Summarize ==
    /\ pc = "SUMMARIZING"
    /\ status = "running"
    /\ \E how \in RenderOutcomes, chunks \in LlmTexts("summary_prompt"), failed \in BOOLEAN :
         LET prompt == RenderTemplate("summary_prompt", how)
         IN  IF prompt.raised
             THEN /\ Fail("SUMMARIZING", MsgRender)
                  /\ UNCHANGED <<summary, llm_failed>>
             ELSE /\ summary' = CallLlm(chunks, failed)
                  /\ llm_failed' = IF failed THEN llm_failed \cup {"SUMMARIZING"} ELSE llm_failed
                  /\ pc' = "PERSISTING"
                  /\ trace' = Append(trace, "PERSISTING")
                  /\ UNCHANGED <<threw, error_message>>
    /\ UNCHANGED <<status, user_input, reply, tool_analysis, idx, tool_results,
                   tools_used, calls, agent_response, context, result, turns, before,
                   tools, storeVars>>
    /\ UNCHANGED <<memVars, regVars, persist_ret>>

(* Step 5, lines 282-290: add_conversation_turn, then the success result. *)
Persist ==
    /\ pc = "PERSISTING"
    /\ status = "running"
    /\ \E t1 \in Instants(now), io \in IoOutcomes :
       \E t2 \in Instants(t1) :
         LET saved == AddConversationTurn(data, file, user_input, agent_response,
                                          tools_used, t1, t2, io)
         IN  /\ data' = saved.data
             /\ file' = saved.file
             /\ now' = t2
             /\ persist_ret' = saved.ret
             /\ IF saved.ret = "raise"
                THEN /\ Fail("PERSISTING", MsgSave)
                     /\ UNCHANGED <<status, result>>
                ELSE /\ result' = SuccessResult(agent_response, tools_used, tool_results,
                                                summary, tool_analysis)
                     /\ pc' = "DONE"
                     /\ trace' = Append(trace, "DONE")
                     /\ status' = "returned"
                     /\ UNCHANGED <<threw, error_message>>
    /\ UNCHANGED <<user_input, reply, tool_analysis, idx, tool_results, tools_used,
                   calls, agent_response, summary, llm_failed, context, turns, before,
                   tools>>
    /\ UNCHANGED <<memVars, regVars>>

(* Lines 292-307: the except clause. *)
HandleError ==
    /\ pc = "ERROR"
    /\ status = "running"
    /\ \E how \in RenderOutcomes, chunks \in LlmTexts("error_handling_prompt"),
          failed \in BOOLEAN :
         LET error_prompt == RenderTemplate("error_handling_prompt", how)
             error_response == CallLlm(chunks, failed)
         IN  IF error_prompt.raised
             THEN /\ status' = "raised"
                  /\ UNCHANGED <<result, llm_failed>>
             ELSE /\ status' = "returned"
                  /\ llm_failed' = IF failed THEN llm_failed \cup {"ERROR"} ELSE llm_failed
                  /\ result' = ErrorResult(error_response, error_message)
    /\ UNCHANGED <<pc, trace, user_input, reply, tool_analysis, idx, tool_results,
                   tools_used, calls, agent_response, summary, threw, error_message,
                   context, turns, before, tools, storeVars>>
    /\ UNCHANGED <<memVars, regVars, persist_ret>>

Next ==
    \/ StartTurn
    \/ Analyze
    \/ ToolStep
    \/ ToolsDone
    \/ Respond
    \/ Summarize
    \/ Persist
    \/ HandleError

Spec == Init /\ [][Next]_vars

(* The statements of process_user_input: once it is called, Python runs
   its next statement, every model call and tool call returning. *)
TurnStep ==
    \/ Analyze
    \/ ToolStep
    \/ ToolsDone
    \/ Respond
    \/ Summarize
    \/ Persist
    \/ HandleError

(* The turn orchestrator with a process_user_input that keeps running once
   it is called; whether it is called again is up to its caller. *)
FairSpec == Init /\ [][Next]_vars /\ WF_vars(TurnStep)

----------------------------------------------------------------------------
(* Parsing specification: one turn that has just started, the model
   answering the tool selection prompt with any text of up to MaxReplyLen
   tokens. *)

ReplyTokens ==
    { LBrace, RBrace, Space, Prose, NT("true"), NT("false"),
      TU(<<Entry(TimeTool, "ok")>>), RS, OtherField }

ReplyTexts == SeqsUpTo(ReplyTokens, MaxReplyLen)

(* The state process_user_input is in when it reaches line 264. *)
ParseInit ==
    /\ pc = "ANALYZING"
    /\ status = "running"
    /\ trace = <<"ANALYZING">>
    /\ user_input = T("What time is it?")
    /\ reply = NoText
    /\ tool_analysis = NoPlan
    /\ idx = 0
    /\ tool_results = << >>
    /\ tools_used = << >>
    /\ calls = << >>
    /\ agent_response = NoText
    /\ summary = NoText
    /\ llm_failed = {}
    /\ threw = "none"
    /\ error_message = NoText
    /\ context = << >>
    /\ result = NoResult
    /\ tools = DefaultTools
    /\ data = CreateEmptyMemory(0, 0)
    /\ file = FileAbsent
    /\ now = 0
    /\ turns = 1
    /\ before = << >>
    /\ persist_ret = "none"
    /\ call = NoCall
    /\ born = 0
    /\ registered = DefaultRegistrations
    /\ listing = NoListing

AnalyzeAny == AnalyzeWith(ReplyTexts)

ParseNext == AnalyzeAny

ParseSpec == ParseInit /\ [][ParseNext]_vars

----------------------------------------------------------------------------
(* Store specification: a Memory object constructed over a backing file,
   its methods called from outside in any order, and the process restarted
   over the file it left. *)

InstantsUpTo(t, last) == t..Min(t + 1, last)

MemInstants(t) == InstantsUpTo(t, MaxMemClock)

(* The i-th turn of a file written by an earlier process. *)
StoredTurn(i) ==
    [timestamp |-> 0, user_input |-> <<Tok("turn"), Tok(ToString(i))>>,
     agent_response |-> T("answer"), tools_used |-> << >>]

StoreWith(n) ==
    [CreateEmptyMemory(0, 0) EXCEPT !.conversations = [i \in 1..n |-> StoredTurn(i)]]

StateKeys == {"mode"}
StateValues == {"quiet", NotJson}

(* A JSON file some other program wrote: an object without "conversations"
   and "metadata". *)
ForeignFile ==
    [kind |-> "data",
     content |-> [keys |-> {"agent_state"}, conversations |-> << >>,
                  agent_state |-> << <<"mode", "quiet">> >>,
                  metadata |-> [created_at |-> 0, last_updated |-> 0]]]

InitialFiles ==
    {FileAbsent, FileCorrupt, FileUndecodable, ForeignFile} \cup {FileOf(StoreWith(n)) : n \in 0..MaxStored}

(* _load_memory reads the clock only when it stamps a metadata block. *)
LoadStamps(f, io) ==
    \/ f.kind # "data"
    \/ io = "read_fails"
    \/ "metadata" \notin f.content.keys

(* The record of a call of a Memory method. *)
MemCall(name, limit, ret, out) ==
    [name |-> name, n |-> call.n + 1, limit |-> limit, ret |-> ret, out |-> out,
     pre |-> data, prior |-> [name |-> call.name, ret |-> call.ret],
     stats |-> NoStats]

(* Memory.__init__ over one of the initial files; no turn is running. *)
MemInit ==
    /\ pc = "IDLE"
    /\ status = "idle"
    /\ trace = << >>
    /\ user_input = NoText
    /\ reply = NoText
    /\ tool_analysis = NoPlan
    /\ idx = 0
    /\ tool_results = << >>
    /\ tools_used = << >>
    /\ calls = << >>
    /\ agent_response = NoText
    /\ summary = NoText
    /\ llm_failed = {}
    /\ threw = "none"
    /\ error_message = NoText
    /\ context = << >>
    /\ result = NoResult
    /\ tools = DefaultTools
    /\ turns = 0
    /\ before = << >>
    /\ persist_ret = "none"
    /\ registered = DefaultRegistrations
    /\ listing = NoListing
    /\ \E f \in InitialFiles, io \in LoadOutcomes, t1 \in MemInstants(0) :
       \E t2 \in MemInstants(t1) :
         LET made == ConstructMemory(f, t1, t2, io)
         IN  /\ file = f
             /\ data = made.data
             /\ now = IF ~made.raised /\ LoadStamps(f, io) THEN t2 ELSE 0
             /\ born = made.data.metadata.created_at
             /\ call = [NoCall EXCEPT !.name = "load",
                                      !.ret = IF made.raised THEN "raise" ELSE io]

(* There is a Memory object: the last construction did not raise. *)
StoreExists == ~(call.name = "load" /\ call.ret = "raise")

(* What a mutation method leaves behind. *)
Mutated(name, saved, t) ==
    /\ data' = saved.data
    /\ file' = saved.file
    /\ now' = t
    /\ call' = MemCall(name, 0, saved.ret, << >>)
    /\ UNCHANGED <<turnVars, tools, born, regVars>>

MemAdd ==
    /\ call.n < MaxCalls
    /\ StoreExists
    /\ \E ui \in UserInputs, tu \in {<< >>, <<TimeTool>>}, io \in IoOutcomes,
          t1 \in MemInstants(now) :
       \E t2 \in MemInstants(t1) :
         Mutated("add_conversation_turn",
                 AddConversationTurn(data, file, ui, T("answer"), tu, t1, t2, io), t2)

MemUpdate ==
    /\ call.n < MaxCalls
    /\ StoreExists
    /\ \E key \in StateKeys, value \in StateValues, io \in IoOutcomes,
          t \in MemInstants(now) :
         Mutated("update_agent_state", UpdateAgentState(data, file, key, value, t, io), t)

MemClearConversations ==
    /\ call.n < MaxCalls
    /\ StoreExists
    /\ \E io \in IoOutcomes, t \in MemInstants(now) :
         Mutated("clear_conversations", ClearConversations(data, file, t, io), t)

MemClearAgentState ==
    /\ call.n < MaxCalls
    /\ StoreExists
    /\ \E io \in IoOutcomes, t \in MemInstants(now) :
         Mutated("clear_agent_state", ClearAgentState(data, file, t, io), t)

MemClearAll ==
    /\ call.n < MaxCalls
    /\ StoreExists
    /\ \E io \in IoOutcomes, t1 \in MemInstants(now) :
       \E t2 \in MemInstants(t1) :
       \E t3 \in MemInstants(t2) :
         Mutated("clear_all", ClearAll(data, file, t1, t2, t3, io), t3)

MemRecent ==
    /\ call.n < MaxCalls
    /\ StoreExists
    /\ \E limit \in 0..MaxLimit :
         call' = MemCall("get_recent_conversations", limit, "list",
                         GetRecentConversations(data, limit))
    /\ UNCHANGED <<turnVars, tools, storeVars, born, regVars>>

MemStats ==
    /\ call.n < MaxCalls
    /\ StoreExists
    /\ call' = [MemCall("get_memory_stats", 0, "dict", << >>)
                  EXCEPT !.stats = GetMemoryStats(data, file)]
    /\ UNCHANGED <<turnVars, tools, storeVars, born, regVars>>

(* The process ends and a new one constructs Memory over the same file. *)
MemRestart ==
    /\ call.n < MaxCalls
    /\ \E io \in LoadOutcomes, t1 \in MemInstants(now) :
       \E t2 \in MemInstants(t1) :
         LET made == ConstructMemory(file, t1, t2, io)
         IN  /\ data' = made.data
             /\ now' = IF ~made.raised /\ LoadStamps(file, io) THEN t2 ELSE now
             /\ born' = made.data.metadata.created_at
             /\ call' = MemCall("load", 0, IF made.raised THEN "raise" ELSE io, << >>)
    /\ UNCHANGED <<turnVars, tools, file, regVars>>

MemNext ==
    \/ MemAdd
    \/ MemUpdate
    \/ MemClearConversations
    \/ MemClearAgentState
    \/ MemClearAll
    \/ MemRecent
    \/ MemStats
    \/ MemRestart

MemSpec == MemInit /\ [][MemNext]_vars

----------------------------------------------------------------------------
(* Registry specification: the ToolManager of a constructed agent, tools
   registered, executed and listed from outside in any order. *)

RegRegister ==
    /\ Len(registered) < Len(DefaultRegistrations) + MaxRegistrations
    /\ \E impl \in ToolClasses :
         /\ tools' = RegisterToolIn(tools, NameOfTool(impl), impl)
         /\ registered' = Append(registered, impl)
    /\ UNCHANGED <<turnVars, storeVars, memVars, listing>>

RegExecute ==
    /\ Len(calls) < MaxExecutes
    /\ \E name \in {TimeTool, FaceTool}, parameters \in {"ok", "bad"} :
         calls' = Append(calls, [name |-> name, parameters |-> parameters,
                                 result |-> ExecuteTool(tools, name, parameters),
                                 after |-> Len(registered)])
    /\ UNCHANGED <<pc, status, trace, user_input, reply, tool_analysis, idx,
                   tool_results, tools_used, agent_response, summary, llm_failed,
                   threw, error_message, context, result, turns, before, persist_ret,
                   tools, storeVars, memVars, regVars>>

(* get_tool_names and get_available_tools, one after the other. *)
RegList ==
    /\ listing' = [names |-> GetToolNames(tools),
                   descriptors |-> GetAvailableTools(tools),
                   after |-> Len(registered)]
    /\ UNCHANGED <<turnVars, tools, storeVars, memVars, registered>>

RegNext ==
    \/ RegRegister
    \/ RegExecute
    \/ RegList

RegSpec == Init /\ [][RegNext]_vars

----------------------------------------------------------------------------
(* Properties of the turn orchestrator *)

Visited(step) == step \in Range(trace)
Returned == status = "returned"
WentError == Visited("ERROR")

(* C1: process_user_input never raises, whatever the input and the
   collaborators do; it returns a structured result, and the result has an
   `error` field exactly when the turn went through ERROR. *)
C1_NeverRaises ==
    /\ status # "raised"
    /\ Returned => ("error" \in result.keys <=> WentError)

(* The normal path of a turn. *)
NormalPath(with_tools) ==
    <<"ANALYZING">> \o (IF with_tools THEN <<"TOOL_EXECUTION">> ELSE << >>)
        \o <<"RESPONDING", "SUMMARIZING", "PERSISTING", "DONE">>

(* C2: the steps of a turn are entered only in the order ANALYZING,
   optionally TOOL_EXECUTION, RESPONDING, SUMMARIZING, PERSISTING, DONE, none
   but TOOL_EXECUTION skipped and none repeated; ERROR is entered only from a
   step before DONE and nothing is entered after it. *)
C2_StepOrder ==
    /\ trace = << >> <=> pc = "IDLE"
    /\ trace # << >> =>
         /\ pc = trace[Len(trace)]
         /\ \E with_tools \in BOOLEAN :
              LET path == NormalPath(with_tools)
              IN  \E k \in 1..Len(path) :
                    \/ trace = SubSeq(path, 1, k)
                    \/ k < Len(path) /\ trace = SubSeq(path, 1, k) \o <<"ERROR">>
    /\ pc = "DONE" => Returned
    /\ pc = "ERROR" => threw \in Steps /\ trace[Len(trace) - 1] = threw

(* A turn with tools that went all the way to PERSISTING and was sent to
   ERROR from there. *)
C2_Witness ==
    /\ trace = <<"ANALYZING", "TOOL_EXECUTION", "RESPONDING", "SUMMARIZING",
                 "PERSISTING", "ERROR">>
    /\ Returned

(* The reply of the tool selection call is known once the call was made. *)
ReplyKnown ==
    /\ Len(trace) >= 2
    /\ ~(threw = "ANALYZING" /\ error_message = MsgRender)

BracePair(r) == \E i, j \in 1..Len(r) : i < j /\ r[i].ch = "{" /\ r[j].ch = "}"

(* The text from the first "{" to the last "}" is an object text. *)
ObjectBetweenBraces(r) ==
    /\ BracePair(r)
    /\ LET i == CHOOSE a \in 1..Len(r) : r[a].ch = "{" /\ \A b \in 1..(a - 1) : r[b].ch # "{"
           j == CHOOSE a \in 1..Len(r) : r[a].ch = "}" /\ \A b \in (a + 1)..Len(r) : r[b].ch # "}"
       IN  /\ i < j
           /\ \A k \in (i + 1)..(j - 1) : r[k].ch \in FieldKeys

(* C3: a reply without a brace pair, or whose text between the first "{" and
   the last "}" is not a valid object, makes the turn resolve via ERROR with
   the error-path result; process_user_input does not crash. *)
C3_BadReplyResolvesViaError ==
    (ReplyKnown /\ ~ObjectBetweenBraces(reply)) =>
        /\ pc = "ERROR"
        /\ threw = "ANALYZING"
        /\ status # "raised"
        /\ Returned => "error" \in result.keys

RegisteredNames == {TimeTool}

CallFails(c) == c.name \notin RegisteredNames \/ c.parameters = "bad"

HasErrorForm(text, name) ==
    /\ Len(text) > 3
    /\ SubSeq(text, 1, 3) = <<Tok("Error executing tool '"), Tok(name), Tok("': ")>>

(* C4: execute_tool never propagates a failure.  Every call returns a text,
   of the form "Error executing tool '<name>': <message>" when the tool is
   missing or its call raises; a failing tool never sends the turn to ERROR,
   the loop goes on and the turn reaches RESPONDING. *)
C4_ExecuteNeverPropagates ==
    /\ \A i \in 1..Len(calls) :
         /\ CallFails(calls[i]) => HasErrorForm(calls[i].result, calls[i].name)
         /\ ~CallFails(calls[i]) => calls[i].result = T("2024-01-01 12:00:00")
    /\ Len(calls) <= idx
    /\ (pc = "ERROR" /\ threw = "TOOL_EXECUTION") =>
         /\ idx < Len(tool_analysis.tools_to_use)
         /\ tool_analysis.tools_to_use[idx + 1].kind = "notobj"

(* Two failing tool calls (an unregistered tool, a call that raises), after
   which the turn is in RESPONDING or beyond. *)
C4_Witness ==
    /\ Visited("RESPONDING")
    /\ \E i, j \in 1..Len(calls) :
         /\ calls[i].name \notin RegisteredNames
         /\ calls[j].name \in RegisteredNames /\ calls[j].parameters = "bad"

(* C5: with needs_tools false (given, or absent and back-filled) the turn
   never enters TOOL_EXECUTION and makes no execute_tool call, whatever
   tools_to_use holds, and the result has empty tools_used and tool_results. *)
C5_NoToolsWithoutFlag ==
    (tool_analysis # NoPlan /\ tool_analysis.needs_tools = "false") =>
        /\ ~Visited("TOOL_EXECUTION")
        /\ calls = << >>
        /\ tool_results = << >>
        /\ Returned => (result.tools_used = << >> /\ result.tool_results = << >>)

(* A successful turn whose plan said needs_tools false and listed a tool. *)
C5_Witness ==
    /\ pc = "DONE"
    /\ tool_analysis.needs_tools = "false"
    /\ tool_analysis.tools_to_use # << >>
    /\ result.tools_used = << >>

PersistRan == Visited("PERSISTING") /\ pc # "PERSISTING"

LastTurn == data.conversations[Len(data.conversations)]

(* C6: a turn that reached PERSISTING appended exactly one turn, whose
   user_input, agent_response and tools_used are the user input and the
   response and tools_used of the result the turn returns. *)
C6_PersistedTurnIsResult ==
    /\ PersistRan => Len(data.conversations) = Len(before) + 1
    /\ (PersistRan /\ Returned) =>
         /\ SubSeq(data.conversations, 1, Len(before)) = before
         /\ LastTurn.user_input = user_input
         /\ LastTurn.agent_response = result.response
         /\ LastTurn.tools_used = result.tools_used
    /\ (Returned /\ "error" \notin result.keys) =>
         Len(data.conversations) = Len(before) + 1

LlmFailureText == <<Tok("Error calling LLM: ")>> \o MsgTransport

ErrorPromptReply == <<Tok("reply to"), Tok("error_handling_prompt")>>

(* C7: a turn that resolves via ERROR returns tools_used and tool_results
   empty, summary "Error occurred: " followed by the error message, error the
   message, and as response what the call for the error handling prompt
   returned; nothing the turn produced earlier is in the result. *)
C7_ErrorResultShape ==
    (Returned /\ WentError) =>
        /\ result.keys = {"response", "tools_used", "tool_results", "summary", "error"}
        /\ result.tools_used = << >>
        /\ result.tool_results = << >>
        /\ error_message # NoText
        /\ result.error = error_message
        /\ result.summary = <<Tok("Error occurred: ")>> \o error_message
        /\ result.response = IF "ERROR" \in llm_failed THEN LlmFailureText
                             ELSE ErrorPromptReply
        /\ result.tool_analysis = NoPlan

(* An ERROR result of a turn that had executed tools and produced a response. *)
C7_Witness ==
    /\ Returned
    /\ WentError
    /\ tools_used # << >>
    /\ agent_response # NoText
    /\ summary # NoText

(* C8: when SUMMARIZING throws, the turn goes to ERROR: nothing is appended
   to the store and the result is the error-path result, whose response is
   not the agent_response produced in RESPONDING. *)
C8_SummaryFailureAbortsTurn ==
    threw = "SUMMARIZING" =>
        /\ pc = "ERROR"
        /\ agent_response # NoText
        /\ data.conversations = before
        /\ Returned =>
             /\ "error" \in result.keys
             /\ result.error = MsgRender
             /\ "RESPONDING" \notin llm_failed => result.response # agent_response

(* The result of a turn whose summary step threw after a response of the
   model had been produced. *)
C8_Witness ==
    /\ Returned
    /\ threw = "SUMMARIZING"
    /\ "RESPONDING" \notin llm_failed
    /\ "error" \in result.keys

(* C9: a failing model call does not abort the turn where it happens:
   _call_llm returns "Error calling LLM: <message>"; after a failure in
   RESPONDING or SUMMARIZING the turn goes on, that text is the response or
   the summary of the success result, and the turn is persisted with it. *)
C9_LlmFailureStaysInline ==
    /\ "RESPONDING" \in llm_failed =>
         /\ threw # "RESPONDING"
         /\ Visited("SUMMARIZING")
         /\ agent_response = LlmFailureText
    /\ "SUMMARIZING" \in llm_failed =>
         /\ threw # "SUMMARIZING"
         /\ Visited("PERSISTING")
         /\ summary = LlmFailureText
    /\ (pc = "DONE" /\ "RESPONDING" \in llm_failed) =>
         /\ "error" \notin result.keys
         /\ result.response = LlmFailureText
         /\ Len(data.conversations) = Len(before) + 1
         /\ LastTurn.agent_response = LlmFailureText
    /\ (pc = "DONE" /\ "SUMMARIZING" \in llm_failed) =>
         /\ "error" \notin result.keys
         /\ result.summary = LlmFailureText
         /\ Len(data.conversations) = Len(before) + 1

(* A successful turn whose response and summary calls both failed. *)
C9_Witness ==
    /\ pc = "DONE"
    /\ {"RESPONDING", "SUMMARIZING"} \subseteq llm_failed
    /\ "error" \notin result.keys

IsExecuted(tool_spec) ==
    tool_spec.kind = "obj" /\ tool_spec.tool_name \notin {"", Absent}

ConsumedEntries == SubSeq(tool_analysis.tools_to_use, 1, idx)

(* C10: the tools run one at a time in the order of the plan, every entry
   with a non-empty tool_name (a repeated name too); the result mapping holds
   for each name the result of its latest execution. *)
C10_PlanOrderLastWins ==
    LET expected == SelectSeq(ConsumedEntries, IsExecuted)
    IN  /\ Len(calls) = Len(expected)
        /\ \A i \in 1..Len(calls) :
             /\ calls[i].name = expected[i].tool_name
             /\ calls[i].parameters = expected[i].parameters
                  \/ (calls[i].parameters = "empty" /\ expected[i].parameters = Absent)
        /\ (Visited("TOOL_EXECUTION") /\ Visited("RESPONDING")) =>
             idx = Len(tool_analysis.tools_to_use)
        /\ ~Visited("TOOL_EXECUTION") => (idx = 0 /\ calls = << >>)
        /\ {tool_results[k][1] : k \in 1..Len(tool_results)} = {calls[i].name : i \in 1..Len(calls)}
        /\ \A k \in 1..Len(tool_results) :
             \E i \in 1..Len(calls) :
               /\ calls[i].name = tool_results[k][1]
               /\ \A j \in (i + 1)..Len(calls) : calls[j].name # calls[i].name
               /\ tool_results[k][2] = calls[i].result

(* A finished tool loop that ran the same tool twice with different results. *)
C10_Witness ==
    /\ Visited("RESPONDING")
    /\ \E i, j \in 1..Len(calls) :
         /\ i < j
         /\ calls[i].name = calls[j].name
         /\ calls[i].result # calls[j].result

----------------------------------------------------------------------------
(* Tool names of a turn *)

(* The names of the plan entries that have a non-empty tool_name. *)
PlanNames(plan) ==
    LET named == SelectSeq(plan, IsExecuted)
    IN  [i \in 1..Len(named) |-> named[i].tool_name]

(* Each element once, at the place of its first occurrence. *)
RECURSIVE FirstOccurrences(_)
FirstOccurrences(s) ==
    IF s = << >> THEN << >>
    ELSE LET front == FirstOccurrences(SubSeq(s, 1, Len(s) - 1))
             last == s[Len(s)]
         IN  IF last \in Range(front) THEN front ELSE Append(front, last)

SuccessPath == pc = "DONE" /\ Returned /\ "error" \notin result.keys

(* C11 as stated: on the success path tools_used is the list of keys of
   tool_results in insertion order, which is each distinct non-empty tool
   name of the plan once, in the order of its first occurrence in
   tools_to_use, and the persisted turn holds the same list. *)
C11_ToolsUsedIsPlanNames ==
    SuccessPath =>
        /\ result.tools_used = DictKeys(result.tool_results)
        /\ result.tools_used = FirstOccurrences(PlanNames(tool_analysis.tools_to_use))
        /\ LastTurn.tools_used = result.tools_used

(* C11 amended: on the success path tools_used is the list of keys of
   tool_results in insertion order and the persisted turn holds the same
   list; when the plan's needs_tools is truthy it is each distinct non-empty
   tool name of the plan once, in the order of its first occurrence in
   tools_to_use, and when needs_tools is falsy it is empty whatever the plan
   lists. *)
C11_ToolsUsedIsExecutedPlanNames ==
    SuccessPath =>
        /\ result.tools_used = DictKeys(result.tool_results)
        /\ result.tools_used =
              IF Truthy(tool_analysis.needs_tools)
              THEN FirstOccurrences(PlanNames(tool_analysis.tools_to_use))
              ELSE << >>
        /\ Len(data.conversations) = Len(before) + 1
        /\ LastTurn.tools_used = result.tools_used
        /\ (file.kind = "data"
              /\ Len(file.content.conversations) = Len(data.conversations)) =>
              file.content.conversations[Len(data.conversations)].tools_used
                  = result.tools_used

(* A successful turn whose plan named a tool, then another, then the first
   one again. *)
C11_Witness ==
    /\ SuccessPath
    /\ tool_analysis.tools_to_use = RevisitPlan
    /\ result.tools_used = <<TimeTool, FaceTool>>
    /\ LastTurn.tools_used = <<TimeTool, FaceTool>>

(* A plan entry that is an object with an empty or missing tool_name. *)
Nameless(tool_spec) ==
    tool_spec.kind = "obj" /\ tool_spec.tool_name \in {"", Absent}

NextEntryIsNameless ==
    /\ pc = "TOOL_EXECUTION"
    /\ idx < Len(tool_analysis.tools_to_use)
    /\ Nameless(tool_analysis.tools_to_use[idx + 1])

(* C12: a plan entry whose tool_name is empty or missing is skipped without
   a fault: the loop moves past it with no execute_tool call and no new key
   in tool_results, no empty name is ever in calls, tool_results or
   tools_used, and the entries after it are processed, so a finished loop
   has made one call for every named entry of the whole plan. *)
C12_NamelessEntrySkipped ==
    /\ [][NextEntryIsNameless =>
             /\ idx' = idx + 1
             /\ pc' = "TOOL_EXECUTION"
             /\ calls' = calls
             /\ tool_results' = tool_results
             /\ tools_used' = tools_used
             /\ threw' = threw]_vars
    /\ [](/\ \A i \in 1..Len(calls) : calls[i].name \notin {"", Absent}
          /\ \A i \in 1..Len(tool_results) : tool_results[i][1] \notin {"", Absent}
          /\ \A i \in 1..Len(tools_used) : tools_used[i] \notin {"", Absent}
          /\ (Visited("TOOL_EXECUTION") /\ Visited("RESPONDING")) =>
                Len(calls) = Len(SelectSeq(tool_analysis.tools_to_use, IsExecuted)))

(* A finished tool loop whose plan had a nameless entry before a named one,
   and the named one was executed. *)
C12_Witness ==
    /\ Visited("TOOL_EXECUTION")
    /\ Visited("RESPONDING")
    /\ \E i, j \in 1..Len(tool_analysis.tools_to_use) :
         /\ i < j
         /\ Nameless(tool_analysis.tools_to_use[i])
         /\ IsExecuted(tool_analysis.tools_to_use[j])
         /\ calls[Len(calls)].name = tool_analysis.tools_to_use[j].tool_name

----------------------------------------------------------------------------
(* Properties of the plan parser *)

(* The members written between the first "{" and the last "}" of a reply. *)
MembersOf(r) ==
    LET i == CHOOSE a \in 1..Len(r) : r[a].ch = "{" /\ \A b \in 1..(a - 1) : r[b].ch # "{"
        j == CHOOSE a \in 1..Len(r) : r[a].ch = "}" /\ \A b \in (a + 1)..Len(r) : r[b].ch # "}"
    IN  SubSeq(r, i + 1, j - 1)

Written(r, key) == \E i \in 1..Len(MembersOf(r)) : MembersOf(r)[i].ch = key

(* The member JSON keeps for a key: the last one written. *)
MemberOf(r, key) ==
    LET m == MembersOf(r)
    IN  m[CHOOSE i \in 1..Len(m) : m[i].ch = key /\ \A j \in (i + 1)..Len(m) : m[j].ch # key]

(* C13: once the reply parses to an object the plan is accepted whatever
   fields are missing: ANALYZING does not send the turn to ERROR, every one of
   needs_tools, tools_to_use and reasoning that is absent has its default
   (false, the empty list, the placeholder text) and every one that is
   present keeps its parsed value. *)
C13_PartialPlanAccepted ==
    (ReplyKnown /\ ObjectBetweenBraces(reply)) =>
        /\ threw # "ANALYZING"
        /\ trace[2] \in {"TOOL_EXECUTION", "RESPONDING"}
        /\ tool_analysis.keys =
              {MembersOf(reply)[i].ch : i \in 1..Len(MembersOf(reply))}
                  \cup {"needs_tools", "tools_to_use", "reasoning"}
        /\ tool_analysis.needs_tools =
              IF Written(reply, "needs_tools") THEN MemberOf(reply, "needs_tools").nt
              ELSE "false"
        /\ tool_analysis.tools_to_use =
              IF Written(reply, "tools_to_use") THEN MemberOf(reply, "tools_to_use").tu
              ELSE << >>
        /\ tool_analysis.reasoning =
              IF Written(reply, "reasoning") THEN "given" ELSE "No reasoning provided"

(* An accepted plan whose reply had tools_to_use only: needs_tools and
   reasoning were filled in, the list was kept. *)
C13_Witness ==
    /\ reply = <<LBrace, TU(<<Entry(TimeTool, "ok")>>), RBrace>>
    /\ pc = "RESPONDING"
    /\ tool_analysis.needs_tools = "false"
    /\ tool_analysis.tools_to_use = <<Entry(TimeTool, "ok")>>
    /\ tool_analysis.reasoning = "No reasoning provided"

(* The text r[i..j] is an object text. *)
ObjectAt(r, i, j) ==
    /\ i < j
    /\ r[i].ch = "{"
    /\ r[j].ch = "}"
    /\ \A k \in (i + 1)..(j - 1) : r[k].ch \in FieldKeys

(* The plan is the object whose members are m, with the defaults. *)
PlanIsObject(m) ==
    LET has(key) == \E i \in 1..Len(m) : m[i].ch = key
        kept(key) == m[CHOOSE i \in 1..Len(m) :
                          m[i].ch = key /\ \A j \in (i + 1)..Len(m) : m[j].ch # key]
    IN  /\ tool_analysis.keys = {m[i].ch : i \in 1..Len(m)}
                                   \cup {"needs_tools", "tools_to_use", "reasoning"}
        /\ tool_analysis.needs_tools =
              IF has("needs_tools") THEN kept("needs_tools").nt ELSE "false"
        /\ tool_analysis.tools_to_use =
              IF has("tools_to_use") THEN kept("tools_to_use").tu ELSE << >>

(* C14 as stated: whenever the reply contains a valid bracketed object,
   parsing extracts exactly that object, whatever text precedes or follows
   it. *)
C14_AnyContainedObjectExtracted ==
    (ReplyKnown /\ \E i, j \in 1..Len(reply) : ObjectAt(reply, i, j)) =>
        /\ threw # "ANALYZING"
        /\ \E i, j \in 1..Len(reply) :
             ObjectAt(reply, i, j) /\ PlanIsObject(SubSeq(reply, i + 1, j - 1))

(* C14 amended: when the text from the first "{" to the last "}" of the
   trimmed reply is a valid object, parsing extracts exactly that object
   whatever prose stands before the first "{" and after the last "}"; when
   the reply has a brace pair and that text is not a valid object (an object
   with another brace in the prose around it, or two objects) the reply is
   rejected with a JSON decoding error. *)
C14_ObjectBetweenOuterBracesExtracted ==
    /\ (ReplyKnown /\ ObjectBetweenBraces(reply)) =>
          /\ threw # "ANALYZING"
          /\ PlanIsObject(MembersOf(reply))
    /\ (ReplyKnown /\ BracePair(reply) /\ ~ObjectBetweenBraces(reply)) =>
          /\ threw = "ANALYZING"
          /\ error_message = MsgJsonDecode
          /\ tool_analysis = NoPlan

(* A plan extracted from a reply with prose before and after the object. *)
C14_Witness ==
    /\ reply = <<Prose, LBrace, NT("true"), RBrace, Prose>>
    /\ threw = "none"
    /\ tool_analysis.needs_tools = "true"
    /\ trace = <<"ANALYZING", "TOOL_EXECUTION">>

----------------------------------------------------------------------------
(* Conversation context *)

(* _generate_response has read the store in the current turn. *)
ContextBuilt == Visited("SUMMARIZING") \/ threw = "RESPONDING"

(* The last min(n, Len(s)) elements of s, oldest first. *)
LastOf(s, n) == SubSeq(s, Len(s) - Min(n, Len(s)) + 1, Len(s))

(* C15: the context of RESPONDING is the last min(3, n) turns of the store,
   oldest first, n being the number of turns stored before the current turn
   started; the current turn is not in it (the store is as it was when the
   turn started until PERSISTING); and a turn that ends in ERROR leaves no
   turn in the store, so that no later context can hold it. *)
C15_ContextIsRecentHistory ==
    /\ ContextBuilt => context = LastOf(before, 3)
    /\ (status = "running" /\ pc \in Steps) => data.conversations = before
    /\ WentError => data.conversations = before

----------------------------------------------------------------------------
(* Properties of the memory store *)

RecentCalled == call.name = "get_recent_conversations"

(* C16: for every limit >= 0 and every store of n turns,
   get_recent_conversations(limit) returns the last min(limit, n) turns,
   oldest first: all of them when n <= limit, none when n = 0. *)
C16_RecentIsLastTurns ==
    RecentCalled =>
        /\ Len(call.out) = Min(call.limit, Len(data.conversations))
        /\ call.out = LastOf(data.conversations, call.limit)

(* C17 as stated: created_at is set once, when the store is materialised,
   and no later operation on the store changes it: append, set state key,
   clear_conversations, clear_agent_state, clear_all, save. *)
C17_CreatedAtNeverChanges ==
    data.metadata.created_at = born

(* C17 amended: created_at is set when the store is materialised (loaded
   from the file, or stamped for an empty structure) and append, set state
   key, clear_conversations, clear_agent_state, the save of each of them and
   get_recent_conversations leave it unchanged; clear_all replaces the store
   by a newly created empty structure and stamps created_at anew with the
   clock at the time of the call. *)
C17_CreatedAtChangesOnlyOnClearAll ==
    /\ [][call'.name \notin {"clear_all", "load"} =>
             data'.metadata.created_at = data.metadata.created_at]_vars
    /\ [][call'.name = "clear_all" =>
             data'.metadata.created_at \in MemInstants(now)]_vars
    /\ [](call.name = "load" => data.metadata.created_at = born)

(* A store whose created_at, after a clear_all, is no longer the one it was
   materialised with. *)
C17_Witness ==
    /\ call.name = "clear_all"
    /\ call.pre.metadata.created_at = born
    /\ data.metadata.created_at # born

Mutations ==
    {"add_conversation_turn", "update_agent_state", "clear_conversations",
     "clear_agent_state", "clear_all"}

(* C18: every mutating operation ends with a save of the whole store: the
   store carries the stamp of that save, and when the operation returned
   true the file holds the entire in-memory store (conversations,
   agent_state and metadata); a store that differs from its file after a
   mutation means the caller got false or an exception. *)
C18_MutationWritesWholeStore ==
    call.name \in Mutations =>
        /\ data.metadata.last_updated = now
        /\ call.ret \in {"true", "false", "raise"}
        /\ call.ret = "true" =>
              /\ file.kind = "data"
              /\ file.content.keys = {"conversations", "agent_state", "metadata"}
              /\ file.content.conversations = data.conversations
              /\ file.content.agent_state = data.agent_state
              /\ file.content.metadata = data.metadata
        /\ (file.kind # "data" \/ file.content.conversations # data.conversations
               \/ file.content.agent_state # data.agent_state) =>
              call.ret \in {"false", "raise"}

(* A state key set on a store that holds turns, written with them to a file
   that held something else before. *)
C18_Witness ==
    /\ call.name = "update_agent_state"
    /\ call.ret = "true"
    /\ call.pre.agent_state = << >>
    /\ data.agent_state # << >>
    /\ Len(data.conversations) > 1
    /\ file.content.agent_state = data.agent_state
    /\ file.content.conversations = data.conversations

(* The file does not hold the in-memory store: the write did not succeed. *)
WriteFailed == file.kind # "data" \/ file.content # JsonDump(data)

(* C19: a failed write reaches the caller of a mutation method as the
   result false, never as an exception: whichever method was called and
   whichever way the write failed, the method returned false. *)
C19_WriteFailureIsFalse ==
    call.name \in Mutations =>
        /\ call.ret # "raise"
        /\ WriteFailed => call.ret = "false"

(* A new process has loaded the file right after a mutation that returned
   true in the process before it. *)
ReloadedAfterWrite ==
    /\ call.name = "load"
    /\ call.ret = "ok"
    /\ call.prior.name \in Mutations
    /\ call.prior.ret = "true"

(* C20: a store loaded from the file after a successful
   add_conversation_turn returns from get_recent_conversations(1) the turn
   that was persisted, equal in timestamp, user_input, agent_response and
   tools_used; after any successful mutation the reloaded conversations and
   agent_state are those of the store that wrote the file. *)
C20_RoundTripAcrossRestart ==
    ReloadedAfterWrite =>
        /\ data.conversations = call.pre.conversations
        /\ data.agent_state = call.pre.agent_state
        /\ call.prior.name = "add_conversation_turn" =>
              LET persisted == call.pre.conversations[Len(call.pre.conversations)]
                  recent == GetRecentConversations(data, 1)
              IN  /\ Len(recent) = 1
                  /\ recent[1].timestamp = persisted.timestamp
                  /\ recent[1].user_input = persisted.user_input
                  /\ recent[1].agent_response = persisted.agent_response
                  /\ recent[1].tools_used = persisted.tools_used

(* A store reloaded after a turn with a tool was added to a store that had
   turns and a state key. *)
C20_Witness ==
    /\ ReloadedAfterWrite
    /\ call.prior.name = "add_conversation_turn"
    /\ Len(data.conversations) > 1
    /\ data.conversations[Len(data.conversations)].tools_used = <<TimeTool>>
    /\ data.conversations[Len(data.conversations)].timestamp = 1

(* C21: after any store operations, clear_all followed by get_memory_stats
   reports conversation_count 0, agent_state_keys 0 and a created_at stamped
   by the clear_all that is equal to last_updated. *)
C21_ClearAllThenStats ==
    (call.name = "get_memory_stats" /\ call.prior.name = "clear_all") =>
        /\ call.stats.conversation_count = 0
        /\ call.stats.agent_state_keys = 0
        /\ call.stats.metadata.created_at <= now
        /\ call.stats.metadata.created_at = call.stats.metadata.last_updated

(* The store was constructed over a file that exists and is not JSON text. *)
LoadedUnparsable ==
    /\ call.name = "load"
    /\ file.kind \in {"corrupt", "undecodable"}

(* C22: constructing the store over an existing file that cannot be parsed
   never fails: the constructor returns, the content of the file is
   discarded and the store is the empty structure with metadata stamped at
   the construction. *)
C22_UnparsableFileStartsEmpty ==
    LoadedUnparsable =>
        /\ call.ret # "raise"
        /\ data.conversations = << >>
        /\ data.agent_state = << >>
        /\ data.metadata.created_at >= call.pre.metadata.last_updated
        /\ data.metadata.created_at <= now

IsPrefix(s, t) == Len(s) <= Len(t) /\ SubSeq(t, 1, Len(s)) = s

(* C23: the conversation log is append-only.  Every step of a process other
   than clear_conversations and clear_all leaves the log it found as a
   prefix of the log it leaves, so that no turn is edited, reordered or
   removed; add_conversation_turn, the store step of a processed turn,
   appends exactly one turn and update_agent_state and clear_agent_state
   leave the log as it is; clear_conversations and clear_all empty it. *)
C23_LogIsAppendOnly ==
    /\ [][call'.name \notin {"clear_conversations", "clear_all", "load"} =>
             IsPrefix(data.conversations, data'.conversations)]_vars
    /\ [][(call' # call /\ call'.name = "add_conversation_turn") =>
             Len(data'.conversations) = Len(data.conversations) + 1]_vars
    /\ [][(call' # call /\ call'.name \in {"update_agent_state", "clear_agent_state",
                                           "get_recent_conversations", "get_memory_stats"}) =>
             data'.conversations = data.conversations]_vars
    /\ [][(call' # call /\ call'.name \in {"clear_conversations", "clear_all"}) =>
             data'.conversations = << >>]_vars

(* A state key set after a turn was appended to a log that had turns: the
   log is the one the append left. *)
C23_Witness ==
    /\ call.name = "update_agent_state"
    /\ call.prior.name = "add_conversation_turn"
    /\ Len(data.conversations) > 2
    /\ data.conversations = call.pre.conversations
    /\ data.agent_state # call.pre.agent_state

----------------------------------------------------------------------------
(* Turns whose plan names a tool the registry does not have *)

(* Entry i of the plan is an object with a non-empty tool_name that is not
   registered, and the loop of _execute_tools has gone through it. *)
UnregisteredEntryDone(i) ==
    /\ Visited("TOOL_EXECUTION")
    /\ i <= idx
    /\ tool_analysis.tools_to_use[i].kind = "obj"
    /\ ToolNameOf(tool_analysis.tools_to_use[i]) # ""
    /\ ~DictHas(tools, ToolNameOf(tool_analysis.tools_to_use[i]))

(* The entries among the first k of the plan that execute_tool is called for. *)
ExecutedEntries(k) ==
    {j \in 1..k : /\ tool_analysis.tools_to_use[j].kind = "obj"
                  /\ ToolNameOf(tool_analysis.tools_to_use[j]) # ""}

(* C26: a plan entry whose non-empty tool_name is not registered does not
   abort the turn or stop the remaining entries: the loop goes on (the only
   exception of the tool step comes from an entry that is not an object,
   and every executable entry gone through has had its call), the text
   "Error executing tool '<name>': ..." is in tool_results under the name,
   and the name is in tools_used of the turn, of the success result and of
   the turn stored for it, in memory and in the file when it was written. *)
C26_UnregisteredToolIsRecorded ==
    \A i \in 1..Len(tool_analysis.tools_to_use) :
        UnregisteredEntryDone(i) =>
            LET name == ToolNameOf(tool_analysis.tools_to_use[i])
            IN  /\ DictHas(tool_results, name)
                /\ DictGet(tool_results, name) = ToolErrorText(name, MsgNotFound)
                /\ Len(calls) = Cardinality(ExecutedEntries(idx))
                /\ threw # "TOOL_EXECUTION" =>
                      \/ pc = "TOOL_EXECUTION"
                      \/ /\ Visited("RESPONDING")
                         /\ idx = Len(tool_analysis.tools_to_use)
                         /\ name \in Range(tools_used)
                /\ threw = "TOOL_EXECUTION" =>
                      tool_analysis.tools_to_use[idx + 1].kind # "obj"
                /\ (Returned /\ "error" \notin result.keys) =>
                      /\ name \in Range(result.tools_used)
                      /\ DictGet(result.tool_results, name) = ToolErrorText(name, MsgNotFound)
                      /\ name \in Range(LastTurn.tools_used)
                      /\ ~WriteFailed =>
                            name \in Range(file.content.conversations[
                                              Len(file.content.conversations)].tools_used)

(* A turn that returned a success result after a plan with the unregistered
   tool first and a registered one after it, both run, and wrote its file. *)
C26_Witness ==
    /\ pc = "DONE"
    /\ Returned
    /\ "error" \notin result.keys
    /\ tool_analysis.tools_to_use = <<Entry(FaceTool, "ok"), Entry(TimeTool, "ok")>>
    /\ result.tools_used = <<FaceTool, TimeTool>>
    /\ DictGet(result.tool_results, FaceTool) = ToolErrorText(FaceTool, MsgNotFound)
    /\ DictGet(result.tool_results, TimeTool) = ToolOutput("GetCurrentTimeTool")
    /\ LastTurn.tools_used = <<FaceTool, TimeTool>>
    /\ ~WriteFailed

----------------------------------------------------------------------------
(* The store across the turns of one agent *)

TurnOver == status \in {"returned", "raised"}

SuccessReturned == Returned /\ "error" \notin result.keys

(* C27: a turn that resolves via ERROR leaves the conversation sequence and
   the agent_state of the store as they were when it started, and a turn
   that is over has added one conversation when it returned a success
   result and none otherwise; from the empty store of a new agent, the
   number of stored conversations is then the number of success results. *)
C27_ErrorTurnLeavesStoreUnchanged ==
    /\ WentError =>
          /\ data.conversations = before
          /\ data.agent_state = << >>
    /\ TurnOver =>
          Len(data.conversations) = Len(before) + (IF SuccessReturned THEN 1 ELSE 0)

(* The file does not hold the last turn of the log. *)
FileLacksLastTurn ==
    \/ file.kind # "data"
    \/ Len(file.content.conversations) < Len(data.conversations)

(* C28: when add_conversation_turn returns false in PERSISTING the turn
   does not go to ERROR: process_user_input returns the success result,
   without an `error` field; the turn is the last one of the in-memory log
   and is not in the file; and the next turn, whose store still ends with
   it, has it as the last turn of its context. *)
C28_FailedWriteKeepsTurnInMemory ==
    /\ (persist_ret = "false" /\ PersistRan) =>
          /\ pc = "DONE"
          /\ ~WentError
          /\ Returned
          /\ "error" \notin result.keys
          /\ result = SuccessResult(agent_response, tools_used, tool_results,
                                    summary, tool_analysis)
          /\ Len(data.conversations) = Len(before) + 1
          /\ LastTurn.user_input = user_input
          /\ LastTurn.agent_response = result.response
          /\ LastTurn.tools_used = result.tools_used
          /\ FileLacksLastTurn
    /\ (persist_ret = "false" /\ ~Visited("PERSISTING")) =>
          /\ data.conversations # << >>
          /\ FileLacksLastTurn
          /\ status = "running" => before = data.conversations
          /\ (status = "running" /\ ContextBuilt) =>
                /\ context # << >>
                /\ context[Len(context)] = LastTurn

(* The second turn of an agent has built its context, which holds the first
   turn, whose write failed and left no file. *)
C28_Witness ==
    /\ turns = 2
    /\ status = "running"
    /\ pc = "SUMMARIZING"
    /\ persist_ret = "false"
    /\ file.kind # "data"
    /\ Len(context) = 1
    /\ context[1] = data.conversations[1]
    /\ context[1].agent_response = <<Tok("reply to"), Tok("response_generation_prompt")>>

(* Position of a step in process_user_input. *)
StepRank(step) ==
    CASE step = "IDLE" -> 0
      [] step = "ANALYZING" -> 1
      [] step = "TOOL_EXECUTION" -> 2
      [] step = "RESPONDING" -> 3
      [] step = "SUMMARIZING" -> 4
      [] step = "PERSISTING" -> 5
      [] step = "DONE" -> 6
      [] step = "ERROR" -> 6

(* The control moves forward, or the caller starts another turn. *)
NoLoopBack ==
    \/ status # "running" /\ status' = "running" /\ pc' = "ANALYZING"
    \/ /\ StepRank(pc') >= StepRank(pc)
       /\ (pc' = pc /\ pc = "TOOL_EXECUTION") => idx' > idx
       /\ (pc' = pc /\ pc # "TOOL_EXECUTION") => (pc = "ERROR" /\ status' # "running")
       /\ pc \in {"DONE", "ERROR"} => pc' = pc

(* C29: every turn terminates: a process_user_input that was called reaches
   DONE or ERROR and returns; no step goes back to an earlier one or is
   tried again (the tool loop goes to its next entry); and the ERROR
   handler is one step with one model call, whose answer or failure text is
   the response it returns. *)
C29_EveryTurnTerminates ==
    /\ (status = "running") ~> (status = "returned" /\ pc \in {"DONE", "ERROR"})
    /\ [][NoLoopBack]_vars
    /\ [](WentError /\ Returned =>
            result.response \in {ErrorPromptReply, LlmFailureText})

(* The same without the word "returns": control leaves process_user_input,
   with a result or with an exception of the ERROR handler. *)
TurnEnds ==
    /\ (status = "running") ~> (status \in {"returned", "raised"} /\ pc \in {"DONE", "ERROR"})
    /\ [][NoLoopBack]_vars
    /\ [](WentError /\ Returned =>
            result.response \in {ErrorPromptReply, LlmFailureText})

----------------------------------------------------------------------------
(* Properties of the tool registry *)

(* The names of the first k register_tool calls, in call order. *)
RegisteredNamesUpTo(k) == [i \in 1..k |-> NameOfTool(registered[i])]

(* The tool passed to the last of the first k register_tool calls that
   carried this name. *)
LatestRegistered(name, k) ==
    registered[CHOOSE i \in 1..k :
                 /\ NameOfTool(registered[i]) = name
                 /\ \A j \in (i + 1)..k : NameOfTool(registered[j]) # name]

(* C24: register_tool is last-write-wins on the name: the registry holds
   one tool for every distinct name registered, the one of the latest
   register_tool call with that name, and execute_tool runs the tool that
   was the latest one registered under the name when it was called. *)
C24_RegisterLastWriteWins ==
    /\ \A i, j \in 1..Len(tools) : tools[i][1] = tools[j][1] => i = j
    /\ {tools[i][1] : i \in 1..Len(tools)} = Range(RegisteredNamesUpTo(Len(registered)))
    /\ \A i \in 1..Len(tools) :
         tools[i][2] = LatestRegistered(tools[i][1], Len(registered))
    /\ \A c \in 1..Len(calls) :
         (calls[c].name \in Range(RegisteredNamesUpTo(calls[c].after))
            /\ calls[c].parameters = "ok") =>
             calls[c].result = ToolOutput(LatestRegistered(calls[c].name, calls[c].after))

(* A call that ran the tool registered under a name another tool had. *)
C24_Witness ==
    /\ registered = <<"GetCurrentTimeTool", "RecognizeFaceTool", "CustomTimeTool">>
    /\ Len(tools) = 2
    /\ calls # << >>
    /\ calls[Len(calls)].name = TimeTool
    /\ calls[Len(calls)].after = 3
    /\ calls[Len(calls)].result = T("custom time")

(* C25: get_available_tools and get_tool_names list the registered tools
   in registration order, a name registered again staying where it was
   first registered, and in the same order: the i-th descriptor is the one
   of the tool now registered under the i-th name. *)
C25_ListingsInRegistrationOrder ==
    /\ listing.names = FirstOccurrences(RegisteredNamesUpTo(listing.after))
    /\ Len(listing.descriptors) = Len(listing.names)
    /\ \A i \in 1..Len(listing.names) :
         /\ listing.descriptors[i].name = listing.names[i]
         /\ listing.descriptors[i] =
              ToDict(LatestRegistered(listing.names[i], listing.after))

(* A listing of two tools made after the first name was registered again. *)
C25_Witness ==
    /\ registered = <<"GetCurrentTimeTool", "RecognizeFaceTool", "CustomTimeTool">>
    /\ listing.after = 3
    /\ listing.names = <<TimeTool, FaceTool>>
    /\ listing.descriptors[1].description = "CustomTimeTool"
    /\ listing.descriptors[2].description = "RecognizeFaceTool"

====
